---- MODULE Spec2Model ----
(***************************************************************************)
(* The dependency-aware task executor of examples/research_workflow.py:    *)
(* ResearchWorkflow (add_task, get_ready_tasks, build_task_context,        *)
(* execute_task, run, get_status) over WorkflowTask objects.               *)
(*                                                                         *)
(* A dict is a sequence in insertion order; texts are tuples and None is   *)
(* the tuple <<"None">>; a returned status dict is <<dict>>, and <<>> when *)
(* nothing was returned.                                                   *)
(* Task ids are opaque keys (only compared for equality), so they are      *)
(* numbered by first registration: the k-th distinct id registered is k.   *)
(* Timestamps (start_time, end_time, execution_time) and workflow_id are   *)
(* only reported, never read by the scheduling code, and are left out.     *)
(***************************************************************************)
EXTENDS Integers, Sequences, FiniteSets, TLC

\* ---- bounds ----
MaxTasks    == 3   \* at most this many distinct task ids
MaxSize     == 5   \* at most this many tasks and dependency entries together
MaxRuns     == 2   \* at most this many run() calls
MaxLateAdds == 1   \* at most this many add_task() calls after the first run()

TaskIds      == 1..MaxTasks
Priorities   == {1, 5}
Descriptions == {"d"}
Errors       == {<<"boom">>}   \* texts of the exception a runner can raise
None         == <<"None">>

\* dependency lists: sequences of distinct ids
DepLists ==
    { s \in UNION { [1..n -> TaskIds] : n \in 0..(MaxSize - 1) } :
        \A i, j \in DOMAIN s : i # j => s[i] # s[j] }

VARIABLES
    tasks,           \* self.tasks: dict task_id -> WorkflowTask, in insertion order
    results,         \* self.results: dict task_id -> text
    pc,              \* where the caller is: "idle", or inside run(): "loop", "batch", "running"
    completed_count, \* local of run()
    ready_tasks,     \* local of run(): the batch being iterated
    idx,             \* position of the for loop in ready_tasks
    outcome,         \* how the last run() call ended
    pending_tasks,   \* the ids named by the "Workflow stuck!" error
    run_result,      \* what the last run() returned
    snapshot,        \* what get_status() returned, when it was the call just made
    add_outcome,     \* how the last add_task() call ended
    late_adds,       \* number of add_task() calls made after the first run()
    invoked,         \* per run() call, the task ids passed to their runner, in order
    prompts          \* per run() call, the prompts passed to the runner, in order

vars == <<tasks, results, pc, completed_count, ready_tasks, idx, outcome,
          pending_tasks, run_result, snapshot, add_outcome, late_adds, invoked, prompts>>

\* ---- WorkflowTask ----
WorkflowTask(task_id, description, dependencies, priority) ==
    [task_id |-> task_id, description |-> description,
     dependencies |-> dependencies, priority |-> priority,
     status |-> "pending", result |-> None, error |-> None]

\* ---- dict helpers ----
Keys(ts) == { ts[i].task_id : i \in DOMAIN ts }

IndexOf(ts, id) == CHOOSE i \in DOMAIN ts : ts[i].task_id = id

Get(ts, id) == ts[IndexOf(ts, id)]

\* self.tasks[task.task_id] = task : a registered key keeps its position
add_task(ts, task) ==
    IF task.task_id \in Keys(ts)
    THEN [ts EXCEPT ![IndexOf(ts, task.task_id)] = task]
    ELSE Append(ts, task)

\* the size of a workflow: its tasks and their dependency entries
Size(ts) ==
    LET RECURSIVE Sum(_)
        Sum(i) == IF i = 0 THEN 0 ELSE 1 + Len(ts[i].dependencies) + Sum(i - 1)
    IN Sum(Len(ts))

\* ---- get_ready_tasks ----
\* a dependency check that is satisfied by any one completed dependency
deps_satisfied_any(ts, deps) ==
    IF deps = <<>> THEN "True"
    ELSE IF \E k \in DOMAIN deps :
                deps[k] \in Keys(ts) /\ Get(ts, deps[k]).status = "completed"
         THEN "True" ELSE "False"

\* a dependency check that takes a failed dependency for a finished one
RECURSIVE deps_satisfied_finished(_, _)
deps_satisfied_finished(ts, deps) ==
    IF deps = <<>> THEN "True"
    ELSE IF Head(deps) \notin Keys(ts) THEN "KeyError"
    ELSE IF Get(ts, Head(deps)).status \notin {"completed", "failed"} THEN "False"
    ELSE deps_satisfied_finished(ts, Tail(deps))

\* all(self.tasks[dep].status == COMPLETED for dep in task.dependencies):
\* evaluated left to right, stops at the first dependency that is not
\* completed, raises KeyError when it reaches an unregistered id.
\* a dependency check that passes over the ids that are not registered
RECURSIVE deps_satisfied_skip_missing(_, _)
deps_satisfied_skip_missing(ts, deps) ==
    IF deps = <<>> THEN "True"
    ELSE IF Head(deps) \notin Keys(ts) THEN deps_satisfied_skip_missing(ts, Tail(deps))
    ELSE IF Get(ts, Head(deps)).status # "completed" THEN "False"
    ELSE deps_satisfied_skip_missing(ts, Tail(deps))

RECURSIVE deps_satisfied(_, _)
deps_satisfied(ts, deps) ==
    IF deps = <<>> THEN "True"
    ELSE IF Head(deps) \notin Keys(ts) THEN "KeyError"
    ELSE IF Get(ts, Head(deps)).status # "completed" THEN "False"
    ELSE deps_satisfied(ts, Tail(deps))

\* a scan that takes a failed task for one to be tried again
RECURSIVE ReadyScanRetry(_, _)
ReadyScanRetry(ts, i) ==
    IF i > Len(ts) THEN <<>>
    ELSE IF ts[i].status \in {"pending", "failed"}
            /\ deps_satisfied(ts, ts[i].dependencies) = "True"
         THEN <<ts[i].task_id>> \o ReadyScanRetry(ts, i + 1)
         ELSE ReadyScanRetry(ts, i + 1)

\* the ids appended to ready_tasks by the for loop, in dict order
RECURSIVE ReadyScan(_, _)
ReadyScan(ts, i) ==
    IF i > Len(ts) THEN <<>>
    ELSE IF ts[i].status = "pending" /\ deps_satisfied(ts, ts[i].dependencies) = "True"
         THEN <<ts[i].task_id>> \o ReadyScan(ts, i + 1)
         ELSE ReadyScan(ts, i + 1)

ReadyRaises(ts) ==
    \E i \in DOMAIN ts :
        ts[i].status = "pending" /\ deps_satisfied(ts, ts[i].dependencies) = "KeyError"

\* list.sort(key=priority, reverse=True): a stable sort, equal keys keep
\* their order.  Insert each id behind every id already placed whose
\* priority is not lower.
\* an insertion that puts an id in front of the ids of equal priority
RECURSIVE InsertByPriorityUnstable(_, _, _)
InsertByPriorityUnstable(ts, sorted, id) ==
    IF sorted = <<>> THEN <<id>>
    ELSE IF Get(ts, Head(sorted)).priority > Get(ts, id).priority
         THEN <<Head(sorted)>> \o InsertByPriorityUnstable(ts, Tail(sorted), id)
         ELSE <<id>> \o sorted

RECURSIVE InsertByPriority(_, _, _)
InsertByPriority(ts, sorted, id) ==
    IF sorted = <<>> THEN <<id>>
    ELSE IF Get(ts, Head(sorted)).priority >= Get(ts, id).priority
         THEN <<Head(sorted)>> \o InsertByPriority(ts, Tail(sorted), id)
         ELSE <<id>> \o sorted

RECURSIVE SortByPriority(_, _)
SortByPriority(ts, ids) ==
    IF ids = <<>> THEN <<>>
    ELSE InsertByPriority(ts, SortByPriority(ts, SubSeq(ids, 1, Len(ids) - 1)), ids[Len(ids)])

get_ready_tasks(ts) == SortByPriority(ts, ReadyScan(ts, 1))

\* ---- build_task_context ----
\* the prompt as its parts: one <<dep_id, text>> per dependency that has a
\* results entry, in the order of task.dependencies, then the description
\* context parts collected from the last dependency to the first
RECURSIVE ContextPartsReversed(_, _)
ContextPartsReversed(res, deps) ==
    IF deps = <<>> THEN <<>>
    ELSE IF Head(deps) \in DOMAIN res
         THEN ContextPartsReversed(res, Tail(deps)) \o <<<<Head(deps), res[Head(deps)]>>>>
         ELSE ContextPartsReversed(res, Tail(deps))

RECURSIVE ContextParts(_, _)
ContextParts(res, deps) ==
    IF deps = <<>> THEN <<>>
    ELSE IF Head(deps) \in DOMAIN res
         THEN <<<<Head(deps), res[Head(deps)]>>>> \o ContextParts(res, Tail(deps))
         ELSE ContextParts(res, Tail(deps))

build_task_context(ts, res, task_id) ==
    [context |-> ContextParts(res, Get(ts, task_id).dependencies),
     task    |-> Get(ts, task_id).description]

\* ---- get_status ----
\* a count that takes every finished task for a completed one
CountStatusFinished(ts, st) ==
    Cardinality({ i \in DOMAIN ts :
        IF st = "completed" THEN ts[i].status \in {"completed", "failed"}
        ELSE ts[i].status = st })

CountStatus(ts, st) == Cardinality({ i \in DOMAIN ts : ts[i].status = st })

\* a progress that is the ratio completed / total, not a percentage
progress_ratio(completed, total) ==
    IF total > 0 THEN <<completed, total>> ELSE <<0, 1>>

\* completed / total * 100 as the fraction <<numerator, denominator>>, 0 when total is 0
progress_percentage(completed, total) ==
    IF total > 0 THEN <<completed * 100, total>> ELSE <<0, 1>>

get_status(ts) ==
    [total_tasks     |-> Len(ts),
     completed_tasks |-> CountStatus(ts, "completed"),
     failed_tasks    |-> CountStatus(ts, "failed"),
     progress_percentage |->
         progress_percentage(CountStatus(ts, "completed"), Len(ts)),
     tasks |-> [i \in DOMAIN ts |->
                  [task_id |-> ts[i].task_id, status |-> ts[i].status,
                   dependencies |-> ts[i].dependencies, error |-> ts[i].error]]]

\* ---- execute_task: the writes to the task ----
StartTask(task) == [task EXCEPT !.status = "running"]

\* a completion that stores the result and leaves the status alone
CompleteTaskResultOnly(task, text) == [task EXCEPT !.result = text]

CompleteTask(task, text) == [task EXCEPT !.result = text, !.status = "completed"]

\* a failure that records the error and leaves the status alone
FailTaskErrorOnly(task, err) == [task EXCEPT !.error = err]

FailTask(task, err) == [task EXCEPT !.status = "failed", !.error = err]

StoreResult(res, task_id, text) ==
    [k \in DOMAIN res \cup {task_id} |-> IF k = task_id THEN text ELSE res[k]]

\* the texts a runner can return for a task: as in "ok-<id>", one text per
\* task and run() call, so that a task executed again returns another text
Outputs(task_id, run) == { <<"ok", task_id, run>> }

EmptyDict == [k \in {} |-> None]

Init ==
    /\ tasks = <<>>
    /\ results = EmptyDict
    /\ pc = "idle"
    /\ completed_count = 0
    /\ ready_tasks = <<>>
    /\ idx = 0
    /\ outcome = "none"
    /\ pending_tasks = <<>>
    /\ run_result = <<>>
    /\ snapshot = <<>>
    /\ add_outcome = "none"
    /\ late_adds = 0
    /\ invoked = <<>>
    /\ prompts = <<>>

runLocals == <<completed_count, ready_tasks, idx, outcome, pending_tasks, run_result>>

\* add_task(task), called between run() calls with a freshly built task
AddTask(id, desc, deps, pri) ==
    /\ pc = "idle"
    /\ Len(invoked) > 0 => late_adds < MaxLateAdds
    /\ id <= Len(tasks) + 1
    /\ Size(add_task(tasks, WorkflowTask(id, desc, deps, pri))) <= MaxSize
    /\ tasks' = add_task(tasks, WorkflowTask(id, desc, deps, pri))
    /\ add_outcome' = "returned"
    /\ late_adds' = IF Len(invoked) > 0 THEN late_adds + 1 ELSE late_adds
    /\ snapshot' = <<>>
    /\ UNCHANGED <<results, pc, runLocals, invoked, prompts>>

\* get_status(), called between run() calls or from a runner during one
GetStatus ==
    /\ pc \in {"idle", "running"}
    /\ snapshot' = <<get_status(tasks)>>
    /\ UNCHANGED <<tasks, results, pc, runLocals, add_outcome, late_adds, invoked, prompts>>

\* run() is entered: completed_count = 0
RunBegin ==
    /\ pc = "idle"
    /\ Len(invoked) < MaxRuns
    /\ pc' = "loop"
    /\ completed_count' = 0
    /\ ready_tasks' = <<>>
    /\ idx' = 0
    /\ outcome' = "none"
    /\ pending_tasks' = <<>>
    /\ run_result' = <<>>
    /\ invoked' = Append(invoked, <<>>)
    /\ prompts' = Append(prompts, <<>>)
    /\ snapshot' = <<>>
    /\ UNCHANGED <<tasks, results, add_outcome, late_adds>>

\* a stuck check that finds nothing pending
PendingIdsNone(ts) == <<>>

\* a stuck check that lists every task that is not completed
PendingIdsUnfinished(ts) ==
    LET RECURSIVE Scan(_)
        Scan(i) == IF i > Len(ts) THEN <<>>
                   ELSE IF ts[i].status # "completed"
                        THEN <<ts[i].task_id>> \o Scan(i + 1)
                        ELSE Scan(i + 1)
    IN Scan(1)

PendingIds(ts) ==
    LET RECURSIVE Scan(_)
        Scan(i) == IF i > Len(ts) THEN <<>>
                   ELSE IF ts[i].status = "pending"
                        THEN <<ts[i].task_id>> \o Scan(i + 1)
                        ELSE Scan(i + 1)
    IN Scan(1)

\* a loop that has no exit for an empty ready set
RunLoopNoExit ==
    /\ pc = "loop"
    /\ IF completed_count >= Len(tasks)
       THEN \* the while test fails: return self.get_status()
            /\ pc' = "idle" /\ outcome' = "returned"
            /\ run_result' = <<get_status(tasks)>>
            /\ UNCHANGED <<ready_tasks, idx, pending_tasks>>
       ELSE IF ReadyRaises(tasks)
       THEN \* get_ready_tasks raises KeyError, which leaves run()
            /\ pc' = "idle" /\ outcome' = "KeyError"
            /\ UNCHANGED <<ready_tasks, idx, pending_tasks, run_result>>
       ELSE IF get_ready_tasks(tasks) # <<>>
       THEN /\ pc' = "batch"
            /\ ready_tasks' = get_ready_tasks(tasks)
            /\ idx' = 1
            /\ UNCHANGED <<outcome, pending_tasks, run_result>>
       ELSE \* neither raise nor break: the while loop goes round again
            /\ pc' = "loop"
            /\ UNCHANGED <<ready_tasks, idx, outcome, pending_tasks, run_result>>
    /\ snapshot' = <<>>
    /\ UNCHANGED <<tasks, results, completed_count, add_outcome, late_adds, invoked, prompts>>

\* one evaluation of the while test and of the code up to the for loop
RunLoop ==
    /\ pc = "loop"
    /\ IF completed_count >= Len(tasks)
       THEN \* the while test fails: return self.get_status()
            /\ pc' = "idle" /\ outcome' = "returned"
            /\ run_result' = <<get_status(tasks)>>
            /\ UNCHANGED <<ready_tasks, idx, pending_tasks>>
       ELSE IF ReadyRaises(tasks)
       THEN \* get_ready_tasks raises KeyError, which leaves run()
            /\ pc' = "idle" /\ outcome' = "KeyError"
            /\ UNCHANGED <<ready_tasks, idx, pending_tasks, run_result>>
       ELSE IF get_ready_tasks(tasks) # <<>>
       THEN /\ pc' = "batch"
            /\ ready_tasks' = get_ready_tasks(tasks)
            /\ idx' = 1
            /\ UNCHANGED <<outcome, pending_tasks, run_result>>
       ELSE IF PendingIds(tasks) # <<>>
       THEN \* raise RuntimeError("Workflow stuck! ...")
            /\ pc' = "idle" /\ outcome' = "Stuck"
            /\ pending_tasks' = PendingIds(tasks)
            /\ ready_tasks' = <<>>
            /\ UNCHANGED <<idx, run_result>>
       ELSE \* break, then return self.get_status()
            /\ pc' = "idle" /\ outcome' = "returned"
            /\ run_result' = <<get_status(tasks)>>
            /\ ready_tasks' = <<>>
            /\ UNCHANGED <<idx, pending_tasks>>
    /\ snapshot' = <<>>
    /\ UNCHANGED <<tasks, results, completed_count, add_outcome, late_adds, invoked, prompts>>

AppendLast(seqs, e) == [seqs EXCEPT ![Len(seqs)] = Append(@, e)]

\* execute_task up to the runner call: status RUNNING, prompt built, runner entered
ExecStart ==
    /\ pc = "batch"
    /\ LET id == ready_tasks[idx] IN
        /\ tasks' = [tasks EXCEPT ![IndexOf(tasks, id)] = StartTask(@)]
        /\ invoked' = AppendLast(invoked, id)
        /\ prompts' = AppendLast(prompts, build_task_context(tasks, results, id))
    /\ pc' = "running"
    /\ snapshot' = <<>>
    /\ UNCHANGED <<results, runLocals, add_outcome, late_adds>>

\* a success after which the ready set is computed again at once
ExecSucceedRecompute ==
    /\ pc = "running"
    /\ LET id == ready_tasks[idx] IN
        \E text \in Outputs(id, Len(invoked)) :
            /\ tasks' = [tasks EXCEPT ![IndexOf(tasks, id)] = CompleteTask(@, text)]
            /\ results' = StoreResult(results, id, text)
    /\ completed_count' = completed_count + 1
    /\ idx' = idx + 1
    /\ pc' = "loop"
    /\ snapshot' = <<>>
    /\ UNCHANGED <<ready_tasks, outcome, pending_tasks, run_result,
                   add_outcome, late_adds, invoked, prompts>>

\* the runner returns text: result stored, status COMPLETED, completed_count += 1
ExecSucceed ==
    /\ pc = "running"
    /\ LET id == ready_tasks[idx] IN
        \E text \in Outputs(id, Len(invoked)) :
            /\ tasks' = [tasks EXCEPT ![IndexOf(tasks, id)] = CompleteTask(@, text)]
            /\ results' = StoreResult(results, id, text)
    /\ completed_count' = completed_count + 1
    /\ idx' = idx + 1
    /\ pc' = IF idx + 1 > Len(ready_tasks) THEN "loop" ELSE "batch"
    /\ snapshot' = <<>>
    /\ UNCHANGED <<ready_tasks, outcome, pending_tasks, run_result,
                   add_outcome, late_adds, invoked, prompts>>

\* a failure that is recorded and swallowed: the for loop goes on
ExecFailSwallowed(err) ==
    /\ pc = "running"
    /\ LET id == ready_tasks[idx] IN
        tasks' = [tasks EXCEPT ![IndexOf(tasks, id)] = FailTask(@, err)]
    /\ idx' = idx + 1
    /\ pc' = IF idx + 1 > Len(ready_tasks) THEN "loop" ELSE "batch"
    /\ completed_count' = completed_count + 1
    /\ snapshot' = <<>>
    /\ UNCHANGED <<results, ready_tasks, outcome, pending_tasks,
                   run_result, add_outcome, late_adds, invoked, prompts>>

\* the runner raises: status FAILED, error recorded, the exception leaves run()
ExecFail(err) ==
    /\ pc = "running"
    /\ LET id == ready_tasks[idx] IN
        tasks' = [tasks EXCEPT ![IndexOf(tasks, id)] = FailTask(@, err)]
    /\ pc' = "idle"
    /\ outcome' = "RunnerFailure"
    /\ snapshot' = <<>>
    /\ UNCHANGED <<results, completed_count, ready_tasks, idx, pending_tasks,
                   run_result, add_outcome, late_adds, invoked, prompts>>

RunStep ==
    \/ RunBegin
    \/ RunLoop
    \/ ExecStart
    \/ ExecSucceed
    \/ \E err \in Errors : ExecFail(err)

AnyAddTask ==
    \E id \in TaskIds, desc \in Descriptions, deps \in DepLists, pri \in Priorities :
        AddTask(id, desc, deps, pri)

\* the workflow under any sequence of add_task, run and get_status calls
Next ==
    \/ AnyAddTask
    \/ GetStatus
    \/ RunStep

Spec == Init /\ [][Next]_vars

\* the steps run() takes by itself once it is called: sequential code goes on,
\* and a runner that was called returns or raises
RunProgress ==
    \/ RunLoop
    \/ ExecStart
    \/ ExecSucceed
    \/ \E err \in Errors : ExecFail(err)

\* the workflow built first (add_task calls), then run and observed
BuildTask == Len(invoked) = 0 /\ AnyAddTask

NextRun ==
    \/ BuildTask
    \/ GetStatus
    \/ RunStep

SpecRun == Init /\ [][NextRun]_vars

\* a workflow built and then run with no caller between the steps of run():
\* get_status only reads, so leaving it out takes nothing from what run() does
NextRunAlone ==
    \/ BuildTask
    \/ RunStep

SpecRunFair == Init /\ [][NextRunAlone]_vars /\ WF_vars(RunProgress)

\* ---- vocabulary of the properties ----
Registered(id) == id \in Keys(tasks)

StatusOf(id) == Get(tasks, id).status

DepSet(ts, id) ==
    IF id \in Keys(ts)
    THEN { Get(ts, id).dependencies[k] : k \in DOMAIN Get(ts, id).dependencies }
    ELSE {}

RECURSIVE Reach(_, _)
Reach(ts, S) ==
    LET next == S \cup UNION { DepSet(ts, x) : x \in S }
    IN IF next = S THEN S ELSE Reach(ts, next)

\* the ids a task depends on, directly or transitively
TransDeps(ts, id) == Reach(ts, DepSet(ts, id))

OnCycle(ts, id) == id \in TransDeps(ts, id)

HasCycle(ts) == \E id \in Keys(ts) : OnCycle(ts, id)

AllDepsRegistered(ts) == \A id \in Keys(ts) : DepSet(ts, id) \subseteq Keys(ts)

InvokedIn(r) == { invoked[r][k] : k \in DOMAIN invoked[r] }

InvokedIds == UNION { InvokedIn(r) : r \in DOMAIN invoked }

\* a run() call has been made and has returned or raised
RunEnded == pc = "idle" /\ Len(invoked) > 0

NoFailure == \A id \in Keys(tasks) : StatusOf(id) # "failed"

AllCompleted == \A id \in Keys(tasks) : StatusOf(id) = "completed"

\* the fraction p has the value v
HasValue(p, v) == p[1] = v * p[2]

\* ---- C1 ----
\* C1: in every state during or after run(), every task that is Running or
\* Completed has all of its dependencies registered and Completed, and every
\* get_status() snapshot shows the same.
C1_StartedOnlyAfterDependencies ==
    /\ \A id \in Keys(tasks) :
          StatusOf(id) \in {"running", "completed"}
              => \A dep \in DepSet(tasks, id) :
                    Registered(dep) /\ StatusOf(dep) = "completed"
    /\ snapshot # <<>> =>
          \A i \in DOMAIN snapshot[1].tasks :
              snapshot[1].tasks[i].status \in {"running", "completed"}
                  => \A k \in DOMAIN snapshot[1].tasks[i].dependencies :
                        \E j \in DOMAIN snapshot[1].tasks :
                            /\ snapshot[1].tasks[j].task_id = snapshot[1].tasks[i].dependencies[k]
                            /\ snapshot[1].tasks[j].status = "completed"

\* a snapshot taken while a task with dependencies runs and another is pending
C1_Witness ==
    /\ pc = "running"
    /\ snapshot # <<>>
    /\ \E i \in DOMAIN snapshot[1].tasks :
          snapshot[1].tasks[i].status = "running" /\ snapshot[1].tasks[i].dependencies # <<>>
    /\ \E i \in DOMAIN snapshot[1].tasks : snapshot[1].tasks[i].status = "pending"
    /\ \E i \in DOMAIN snapshot[1].tasks : snapshot[1].tasks[i].status = "completed"

\* ---- C2 ----
\* C2: between calls, results has an entry for id X exactly when the task
\* registered under X is Completed.
C2_ResultsIffCompleted ==
    pc = "idle" =>
        \A id \in TaskIds :
            id \in DOMAIN results <=> (Registered(id) /\ StatusOf(id) = "completed")

\* ---- C3 ----
\* C3 as stated: an acyclic task set with all dependencies registered and no
\* runner failure ends run() by a normal return, all tasks Completed, progress
\* 1.0 (completed / total, so of a workflow that has tasks)
C3_ProgressIsOne ==
    (RunEnded /\ Len(tasks) > 0 /\ ~HasCycle(tasks) /\ AllDepsRegistered(tasks) /\ NoFailure)
        => /\ outcome = "returned"
           /\ AllCompleted
           /\ HasValue(run_result[1].progress_percentage, 1)

\* C3 amended: ... run() returns normally, all tasks Completed, and the
\* reported progress_percentage is 100 (0 for a workflow without tasks)
C3_AllCompletedProgress100 ==
    (RunEnded /\ ~HasCycle(tasks) /\ AllDepsRegistered(tasks) /\ NoFailure)
        => /\ outcome = "returned"
           /\ AllCompleted
           /\ run_result[1].total_tasks = Len(tasks)
           /\ run_result[1].completed_tasks = Len(tasks)
           /\ HasValue(run_result[1].progress_percentage, IF Len(tasks) > 0 THEN 100 ELSE 0)

\* a chain of three tasks run to the end
C3_Witness ==
    /\ RunEnded /\ outcome = "returned"
    /\ Len(tasks) = 3 /\ AllCompleted
    /\ \E id \in Keys(tasks) : \E d \in TransDeps(tasks, id) : TransDeps(tasks, d) # {}
    /\ HasValue(run_result[1].progress_percentage, 100)

\* ---- C4 ----
\* C4: a task whose runner raised is Failed with the error text recorded and
\* has no result and no results entry; it is the last task passed to a runner
\* in its run() call, that call ended by raising, and the rest of the ready
\* batch and every task never started is Pending.
C4_FailFast ==
    /\ \A r \in DOMAIN invoked : \A k \in DOMAIN invoked[r] :
          StatusOf(invoked[r][k]) = "failed"
              => /\ k = Len(invoked[r])
                 /\ Get(tasks, invoked[r][k]).error \in Errors
                 /\ Get(tasks, invoked[r][k]).result = None
                 /\ invoked[r][k] \notin DOMAIN results
                 /\ r = Len(invoked) => (pc = "idle" /\ outcome = "RunnerFailure")
    /\ (pc = "idle" /\ outcome = "RunnerFailure")
          => /\ StatusOf(ready_tasks[idx]) = "failed"
             /\ \A j \in (idx + 1)..Len(ready_tasks) :
                   StatusOf(ready_tasks[j]) = "pending" /\ ready_tasks[j] \notin InvokedIds
    /\ \A id \in Keys(tasks) : id \notin InvokedIds => StatusOf(id) = "pending"

\* a failure with a ready task of the same batch and an independent task left over
C4_Witness ==
    /\ pc = "idle" /\ outcome = "RunnerFailure"
    /\ idx < Len(ready_tasks)
    /\ Len(invoked[Len(invoked)]) > 1
    /\ StatusOf(ready_tasks[idx]) = "failed"

\* ---- C5 ----
\* C5: every task that depends, directly or transitively, on a Failed task is
\* Pending and has never been passed to its runner, in the failing run() call
\* and in every later one.
C5_DependentsOfFailedStayPending ==
    \A f \in Keys(tasks) :
        StatusOf(f) = "failed"
            => \A d \in Keys(tasks) :
                  f \in TransDeps(tasks, d)
                      => StatusOf(d) = "pending" /\ d \notin InvokedIds

\* a later run() call has ended with a direct and a transitive dependent left
C5_Witness ==
    /\ pc = "idle" /\ Len(invoked) = 2 /\ outcome = "Stuck"
    /\ \E f \in Keys(tasks) :
          /\ StatusOf(f) = "failed"
          /\ \E d \in Keys(tasks) :
                f \in TransDeps(tasks, d) /\ f \notin DepSet(tasks, d)

\* ---- C6 ----
\* the tasks on a cycle and the tasks all of whose dependencies are on a cycle
CycleBound(ts) ==
    { id \in Keys(ts) :
        \/ OnCycle(ts, id)
        \/ DepSet(ts, id) # {} /\ \A dep \in DepSet(ts, id) : OnCycle(ts, dep) }

\* C6 as stated: with a dependency cycle, run() fails with the stuck error
\* and the tasks bound to the cycle never leave Pending
C6_CycleAlwaysStuckError ==
    HasCycle(tasks) =>
        /\ \A id \in CycleBound(tasks) : StatusOf(id) = "pending" /\ id \notin InvokedIds
        /\ RunEnded => outcome = "Stuck"

\* C6 amended: with a dependency cycle, run() never returns normally: it
\* raises the stuck error unless a runner failure or the lookup of an
\* unregistered dependency id ends the call first; the tasks bound to the
\* cycle never leave Pending.
C6_CycleNeverReturns ==
    HasCycle(tasks) =>
        /\ \A id \in CycleBound(tasks) : StatusOf(id) = "pending" /\ id \notin InvokedIds
        /\ RunEnded =>
              /\ outcome \in {"Stuck", "RunnerFailure", "KeyError"}
              /\ outcome = "RunnerFailure" =>
                    StatusOf(invoked[Len(invoked)][Len(invoked[Len(invoked)])]) = "failed"
              /\ outcome = "KeyError" => ~AllDepsRegistered(tasks)
              /\ outcome = "Stuck" =>
                    /\ pending_tasks # <<>>
                    /\ CycleBound(tasks) \subseteq { pending_tasks[k] : k \in DOMAIN pending_tasks }

\* the stuck error after a task off the cycle was executed, with a task that
\* depends only on the cycle
C6_Witness ==
    /\ RunEnded /\ outcome = "Stuck" /\ HasCycle(tasks)
    /\ \E id \in Keys(tasks) : StatusOf(id) = "completed"
    /\ \E id \in CycleBound(tasks) : ~OnCycle(tasks, id)

\* ---- C7 ----
IsReady(ts, id) ==
    /\ Get(ts, id).status = "pending"
    /\ \A dep \in DepSet(ts, id) : dep \in Keys(ts) /\ Get(ts, dep).status = "completed"

ScenarioA ==
    /\ Len(tasks) = 3
    /\ tasks[1].priority = 1 /\ tasks[1].dependencies = <<>>
    /\ tasks[2].priority = 5 /\ tasks[2].dependencies = <<>>
    /\ tasks[3].priority = 1 /\ tasks[3].dependencies = <<1, 2>>

\* C7: get_ready_tasks returns exactly the Pending tasks whose dependencies
\* are all Completed, by priority descending, equal priorities in
\* registration order; T1(pri 1), T2(pri 5), T3(deps T1, T2) run as T2, T1, T3.
C7_ReadyOrder ==
    /\ ~ReadyRaises(tasks) =>
          LET r == get_ready_tasks(tasks) IN
          /\ { r[i] : i \in DOMAIN r } = { id \in Keys(tasks) : IsReady(tasks, id) }
          /\ \A i, j \in DOMAIN r : i < j =>
                \/ Get(tasks, r[i]).priority > Get(tasks, r[j]).priority
                \/ /\ Get(tasks, r[i]).priority = Get(tasks, r[j]).priority
                   /\ IndexOf(tasks, r[i]) < IndexOf(tasks, r[j])
    /\ (ScenarioA /\ Len(invoked) = 1 /\ pc = "idle" /\ outcome = "returned")
          => invoked[1] = <<2, 1, 3>>

C7_Witness ==
    /\ ScenarioA /\ pc = "idle" /\ outcome = "returned"
    /\ invoked = << <<2, 1, 3>> >>

\* a batch of two tasks of equal priority, taken in registration order
C7_TieWitness ==
    /\ pc = "batch" /\ Len(ready_tasks) = 2 /\ idx = 1
    /\ Get(tasks, ready_tasks[1]).priority = Get(tasks, ready_tasks[2]).priority
    /\ IndexOf(tasks, ready_tasks[1]) < IndexOf(tasks, ready_tasks[2])

\* ---- C8 ----
\* C8 relates two executions of two workflows; it is not a property of the
\* behaviours of one workflow and has no formula here.  What fixes the order
\* within one execution is C7.

\* ---- C9 ----
\* C9: add_task with an id that is already registered fails with a
\* duplicate-task error and leaves the tasks and the results unchanged.
C9_DuplicateRejected ==
    [][\A id \in TaskIds, desc \in Descriptions, deps \in DepLists, pri \in Priorities :
          (Registered(id) /\ AddTask(id, desc, deps, pri))
              => (add_outcome' = "DuplicateTaskError" /\ UNCHANGED <<tasks, results>>)]_vars

\* ---- C10 ----
\* C10: whenever run() has returned or raised, no task is Running and every
\* task that was passed to a runner is Completed or Failed.
C10_NoRunningAfterRun ==
    pc = "idle" =>
        /\ \A id \in Keys(tasks) : StatusOf(id) # "running"
        /\ \A id \in InvokedIds : StatusOf(id) \in {"completed", "failed"}

\* run() has raised after one task completed and the next failed
C10_Witness ==
    /\ pc = "idle" /\ outcome = "RunnerFailure"
    /\ \E id \in InvokedIds : StatusOf(id) = "completed"
    /\ \E id \in InvokedIds : StatusOf(id) = "failed"

\* ---- C11 ----
PendingSet == { id \in Keys(tasks) : StatusOf(id) = "pending" }

NumWithStatus(st) == Cardinality({ id \in Keys(tasks) : StatusOf(id) = st })

\* the counts of a status dict are those of the tasks, its progress is
\* scale * completed / total, and 0 without tasks
CountsOf(report, scale) ==
    /\ report.total_tasks = Cardinality(Keys(tasks))
    /\ report.completed_tasks = NumWithStatus("completed")
    /\ report.failed_tasks = NumWithStatus("failed")
    /\ report.progress_percentage[2] > 0
    /\ report.progress_percentage[1] * Cardinality(Keys(tasks))
          = scale * NumWithStatus("completed") * report.progress_percentage[2]
    /\ Cardinality(Keys(tasks)) = 0 => report.progress_percentage[1] = 0

\* C12 as stated: get_status() reports total, completed and failed as the
\* numbers of registered, Completed and Failed tasks, and progress =
\* completed / total, 0 when no task is registered
C12_ProgressIsRatio ==
    /\ snapshot # <<>> => CountsOf(snapshot[1], 1)
    /\ (RunEnded /\ outcome = "returned") => CountsOf(run_result[1], 1)

\* C12 amended: ... and progress_percentage = completed / total * 100, 0 when
\* no task is registered
C12_StatusCounts ==
    /\ snapshot # <<>> => CountsOf(snapshot[1], 100)
    /\ (RunEnded /\ outcome = "returned") => CountsOf(run_result[1], 100)

\* get_status() called from a runner, with a Completed and a Failed task
C12_Witness ==
    /\ pc = "running" /\ snapshot # <<>>
    /\ snapshot[1].completed_tasks >= 1
    /\ snapshot[1].failed_tasks >= 1
    /\ snapshot[1].total_tasks = 3

\* ---- C13 ----
\* one <<dep_id, result of dep_id>> per dependency, in the declared order,
\* then the description
ExpectedPrompt(id) ==
    [context |-> [i \in 1..Len(Get(tasks, id).dependencies) |->
                     <<Get(tasks, id).dependencies[i],
                       Get(tasks, Get(tasks, id).dependencies[i]).result>>],
     task |-> Get(tasks, id).description]

\* C13: the prompt passed to a task's runner is the recorded result of each
\* dependency, labeled with its id, in the order the dependencies are
\* declared, followed by the task's description; without dependencies it is
\* the description alone.
C13_PromptFromDependencies ==
    \A r \in DOMAIN invoked :
        /\ Len(prompts[r]) = Len(invoked[r])
        /\ \A k \in DOMAIN invoked[r] :
              /\ prompts[r][k] = ExpectedPrompt(invoked[r][k])
              /\ Get(tasks, invoked[r][k]).dependencies = <<>>
                    => prompts[r][k].context = <<>>

\* a prompt built from two dependencies declared against registration order,
\* and a prompt without context
C13_Witness ==
    \E r \in DOMAIN prompts : \E k, m \in DOMAIN prompts[r] :
        /\ Len(prompts[r][k].context) = 2
        /\ prompts[r][k].context[1][1] > prompts[r][k].context[2][1]
        /\ prompts[r][k].context[1][2] # None
        /\ prompts[r][m].context = <<>>

\* ---- C14 ----
\* C14: a task's result is set only if its status is Completed and its error
\* is set only if its status is Failed.
C14_ResultAndErrorMatchStatus ==
    \A id \in Keys(tasks) :
        /\ Get(tasks, id).result # None => StatusOf(id) = "completed"
        /\ Get(tasks, id).error # None => StatusOf(id) = "failed"
        /\ StatusOf(id) \in {"pending", "running"}
              => Get(tasks, id).result = None /\ Get(tasks, id).error = None

\* a Completed task with its result, a Failed task with its error and a
\* Pending task with neither
C14_Witness ==
    /\ \E id \in Keys(tasks) : StatusOf(id) = "completed" /\ Get(tasks, id).result # None
    /\ \E id \in Keys(tasks) : StatusOf(id) = "failed" /\ Get(tasks, id).error # None
    /\ \E id \in Keys(tasks) : StatusOf(id) = "pending"

\* ---- C15 ----
\* C15: an entry of results, once written, is never changed or removed by a
\* later add_task, run or get_status call.
C15_ResultsInsertOnly ==
    [][\A id \in DOMAIN results :
          id \in DOMAIN results' /\ results'[id] = results[id]]_vars

\* ---- C16 ----
Occurrences(seqs, id) ==
    Cardinality({ rk \in { <<r, k>> : r \in DOMAIN seqs, k \in 1..MaxTasks } :
                    rk[2] \in DOMAIN seqs[rk[1]] /\ seqs[rk[1]][rk[2]] = id })

\* C16: a task's status moves only Pending -> Running -> Completed or
\* Pending -> Running -> Failed, never from Completed or Failed and never to
\* Skipped, and no task is passed to its runner more than once over all
\* run() calls.
C16_StatusMovesForward ==
    [][\A id \in Keys(tasks) :
          /\ id \in Keys(tasks')
          /\ \/ Get(tasks', id).status = StatusOf(id)
             \/ <<StatusOf(id), Get(tasks', id).status>> \in
                   { <<"pending", "running">>, <<"running", "completed">>,
                     <<"running", "failed">> }
          /\ Get(tasks', id).status # "skipped"
          /\ Occurrences(invoked', id) <= 1]_vars

\* two run() calls that each passed a task to its runner, one task Completed
\* and one Failed
C16_Witness ==
    /\ RunEnded /\ Len(invoked) = 2
    /\ invoked[1] # <<>> /\ invoked[2] # <<>>
    /\ \E id \in Keys(tasks) : StatusOf(id) = "completed"
    /\ \E id \in Keys(tasks) : StatusOf(id) = "failed"

\* ---- C17 ----
LastOf(seq, n) == SubSeq(seq, Len(seq) - n + 1, Len(seq))

\* C17: the ready set is computed once per loop iteration and all of it is
\* executed in its order before it is computed again: inside a wave the
\* tasks passed to a runner are the wave's first tasks, the rest of the wave
\* is Pending, and when the loop comes round the whole wave has been run.
C17_Waves ==
    /\ pc \in {"batch", "running"} =>
          LET n == IF pc = "running" THEN idx ELSE idx - 1
              cur == invoked[Len(invoked)] IN
          /\ idx \in 1..Len(ready_tasks)
          /\ Len(cur) >= n
          /\ LastOf(cur, n) = SubSeq(ready_tasks, 1, n)
          /\ \A j \in (n + 1)..Len(ready_tasks) : StatusOf(ready_tasks[j]) = "pending"
    /\ (pc = "loop" /\ ready_tasks # <<>>) =>
          /\ idx = Len(ready_tasks) + 1
          /\ Len(invoked[Len(invoked)]) >= Len(ready_tasks)
          /\ LastOf(invoked[Len(invoked)], Len(ready_tasks)) = ready_tasks

\* a wave of two has been run to its end although its first task made ready
\* a task of higher priority than its second
C17_Witness ==
    /\ pc = "loop" /\ Len(ready_tasks) = 2
    /\ LastOf(invoked[Len(invoked)], 2) = ready_tasks
    /\ \E c \in Keys(tasks) :
          /\ IsReady(tasks, c)
          /\ ready_tasks[1] \in DepSet(tasks, c)
          /\ Get(tasks, c).priority > Get(tasks, ready_tasks[2]).priority

\* ---- C18 ----
\* C18: every run() call ends, and each evaluation of its loop either leaves
\* run() or starts a wave of at least one task, all of them Pending.
C18_RunTerminates ==
    /\ (pc # "idle") ~> (pc = "idle")
    /\ [][pc = "loop" =>
             \/ pc' = "idle"
             \/ /\ pc' = "batch" /\ ready_tasks' # <<>>
                /\ \A k \in DOMAIN ready_tasks' : StatusOf(ready_tasks'[k]) = "pending"]_vars

\* a run() call that needed more than one loop iteration (a task executed
\* after the task it depends on) has ended
C18_Witness ==
    /\ RunEnded /\ outcome = "returned"
    /\ Len(invoked[Len(invoked)]) >= 2
    /\ \E id \in Keys(tasks) : DepSet(tasks, id) # {} /\ StatusOf(id) = "completed"

\* ---- C19 ----
MissingDep(id) == ~(DepSet(tasks, id) \subseteq Keys(tasks))

\* C19: once run() is called, a task with a dependency on an id that is not
\* registered is Pending and is never passed to its runner, and a run() call
\* on a workflow with such a task ends with an error.
C19_UnregisteredDependency ==
    Len(invoked) > 0 =>
        /\ \A id \in Keys(tasks) :
              MissingDep(id) => StatusOf(id) = "pending" /\ id \notin InvokedIds
        /\ (RunEnded /\ \E id \in Keys(tasks) : MissingDep(id))
              => outcome \in {"KeyError", "Stuck", "RunnerFailure"}

\* run() has raised KeyError after it executed a task that does not depend
\* on the unregistered id
C19_Witness ==
    /\ RunEnded /\ outcome = "KeyError"
    /\ \E id \in Keys(tasks) : StatusOf(id) = "completed"
    /\ \E id \in Keys(tasks) : MissingDep(id) /\ StatusOf(id) = "pending"
====
